---- MODULE Spec2Model ----
(***************************************************************************)
(* LigatureSled (src/src/lib.rs): a store of named datasets kept in a sled *)
(* database behind one readers-writer lock.  The default tree of the       *)
(* database holds one registry key per dataset; every dataset owns a tree  *)
(* named after it that holds three identifier counters and the index       *)
(* entries of its statements.                                              *)
(*                                                                         *)
(* The transaction objects handed to caller logic (mod query_tx, mod       *)
(* write_tx) are not part of lib.rs; their operations are modelled from    *)
(* the specification's sections 4.2, 4.4 and 4.5.                          *)
(***************************************************************************)
EXTENDS Integers, Sequences, FiniteSets, TLC

\* ------------------------------------------------------------- bounds
\* Largest value an identifier counter may reach (the u64 counters are
\* capped here; every allocation is guarded by it).
MaxId == 2

\* ------------------------------------------------------------ universe
Threads == {"t1", "t2", "t3"}
NoThread == "none"
Datasets == {"a/x", "a/y", "b/z"}
NoDataset == "none"
\* The datasets the threads of Spec work on.
TwoDatasets == {"a/x", "b/z"}
\* ENTITY_ID_COUNTER_KEY, ATTRIBUTE_ID_COUNTER_KEY, STRING_LITERAL_ID_COUNTER_KEY
Kinds == {"entity", "attribute", "string"}
\* The kinds new_entity() and new_attribute() allocate.
IdKinds == {"entity", "attribute"}
\* A counter key that is not in the tree.
NoValue == 0 - 1
\* One key per access pattern for every persisted statement.
Indexes == {"EAVC", "AVEC", "VEAC"}
\* The statements (entity, attribute, value) caller logic adds.
StmtInputs == {<<1, 1, "a">>}
\* A persisted statement: the statement and its context.
PersistedStatements == {<<s[1], s[2], s[3], c>> : s \in StmtInputs, c \in 0..(MaxId - 1)}

VARIABLES
    registry,    \* the dataset keys of the default tree (DATASET_PREFIX + name)
    trees,       \* the tree of every dataset name
    store_lock,  \* the RwLock: its writer and its readers
    pc,          \* where every thread is
    arg,         \* the dataset of the operation a thread is in
    tx,          \* the write transaction in progress
    qtx,         \* every thread's query transaction
    last,        \* the operation that returned last, until the next operation is called
    track,       \* whether the identifiers handed out and committed are recorded
    committed,   \* per dataset and kind: largest identifier of a committed transaction since creation
    ever,        \* per dataset name and kind: largest identifier of a committed transaction ever
    poisoned,    \* whether a thread panicked while it held the lock for writing
    foreign,     \* keys of the default tree that no create_dataset wrote
    iter,        \* every thread's lazy sequence of datasets, returned by an enumeration
    queue        \* the threads blocked in store_lock.read() or store_lock.write(), in order

\* What the lifecycle, write and query operations below never touch.
ext == <<poisoned, foreign, iter, queue>>

vars == <<registry, trees, store_lock, pc, arg, tx, qtx, last, track, committed, ever,
          poisoned, foreign, iter, queue>>

\* ---------------------------------------------------------------- trees
\* A tree that was never opened, or was dropped.
NoTree == [open |-> FALSE, counters |-> [k \in Kinds |-> NoValue], entries |-> {}]
\* What open_tree creates when no tree has the name.
EmptyTree == [open |-> TRUE, counters |-> [k \in Kinds |-> NoValue], entries |-> {}]

\* An open_tree that hands out a new tree whatever the name holds.
open_tree_Fresh(trs, d) == [trs EXCEPT ![d] = EmptyTree]

\* sled's Db::open_tree: the tree of that name, created when absent.
open_tree(trs, d) == IF trs[d].open THEN trs ELSE [trs EXCEPT ![d] = EmptyTree]

\* A drop that takes every tree of the database with it.
drop_tree_Every(trs, d) == [e \in DOMAIN trs |-> NoTree]

\* sled's Db::drop_tree: the tree and all its keys are gone.
drop_tree(trs, d) == [trs EXCEPT ![d] = NoTree]

\* Counters that start at one.
insert_counter_StartsAtOne(tree, k) == [tree EXCEPT !.counters[k] = 1]

\* dataset_tree.insert(vec![KEY], id_start.to_be_bytes()): id_start is 0.
insert_counter(tree, k) == [tree EXCEPT !.counters[k] = 0]

\* A lookup that finds every key.
internal_dataset_exists_Always(reg, d) == TRUE

\* store.contains_key(encoded_dataset)
internal_dataset_exists(reg, d) == d \in reg

\* The index entries of one persisted statement.
IndexEntries(ps) == {<<ix, ps>> : ix \in Indexes}

\* The persisted statements of a tree, read from its entity-first index.
Statements(tree) == {e[2] : e \in {x \in tree.entries : x[1] = "EAVC"}}

\* ----------------------------------------------------------------- lock
Unlocked == [writer |-> NoThread, readers |-> {}]

\* A lock that lets a reader in while a writer holds it.
CanRead_IgnoresWriter(l) == TRUE

\* RwLock::read succeeds while no writer holds the lock.
CanRead(l) == l.writer = NoThread

\* A lock that lets a writer in while readers hold it.
CanWrite_IgnoresReaders(l) == l.writer = NoThread

\* RwLock::write succeeds while nobody holds the lock.
CanWrite(l) == l.writer = NoThread /\ l.readers = {}

ReadLock(l, t) == [l EXCEPT !.readers = @ \cup {t}]
WriteLock(l, t) == [l EXCEPT !.writer = t]
\* Dropping the guard at the end of the operation.
ReadUnlock(l, t) == [l EXCEPT !.readers = @ \ {t}]

\* A write guard that is never dropped.
WriteUnlock_Leaks(l, t) == l

WriteUnlock(l, t) == [l EXCEPT !.writer = NoThread]

\* ------------------------------------------------------------ transactions
\* The registry and the trees before anything was created.
NoStore == [registry |-> {}, trees |-> [d \in Datasets |-> NoTree]]

NoIds == [d \in Datasets |-> [k \in IdKinds |-> NoValue]]

\* The identifiers recorded for a dataset when a write transaction starts.
NoFloor == [committed |-> NoIds["a/x"], ever |-> NoIds["a/x"]]

\* No write transaction is in progress.  view is the tree as the transaction
\* sees it; before, floor and issued record the store and the identifiers at
\* its start and the identifiers it handed out.
NoTx == [owner |-> NoThread, dataset |-> NoDataset, view |-> NoTree, active |-> TRUE,
         issued |-> [k \in IdKinds |-> <<>>], before |-> NoStore, floor |-> NoFloor]

\* No key: the cursor of a scan that has yielded nothing yet.
NoKey == <<>>

\* The thread holds no sequence of datasets.  op is the enumeration that
\* returned it with its arguments a and b; scan, lo and hi are sled's iterator
\* (a prefix scan or a range), cursor the last key it yielded; items is what
\* the caller has taken from it, done whether it is exhausted; atcall is the
\* default tree when the enumeration held the read lock.
NoIter == [op |-> "none", a |-> "", b |-> "", scan |-> "none", lo |-> NoKey, hi |-> NoKey,
           cursor |-> NoKey, items |-> <<>>, done |-> FALSE, atcall |-> {}]

\* The thread is in no query.  pattern is the pattern its logic resolved last
\* and results the sequence find returned for it.
NoQuery == [dataset |-> NoDataset, snapshot |-> {}, found |-> {},
            pattern |-> [e |-> NoValue, a |-> NoValue, v |-> ""], results |-> <<>>]

\* No write has returned yet.
NoLast == [op |-> "none", dataset |-> NoDataset, ret |-> "none", res |-> "none",
           cancelled |-> FALSE, hit |-> FALSE, issued |-> [k \in IdKinds |-> <<>>],
           before |-> NoStore, view |-> NoTree, floor |-> NoFloor]

\* What an operation other than a started write leaves in last: hit says
\* whether the dataset was registered when the operation ran, before is the
\* store it found.
Returned(op, d, r, h, b) ==
    [NoLast EXCEPT !.op = op, !.dataset = d, !.ret = r, !.hit = h, !.before = b]


Init ==
    /\ registry = {}
    /\ trees = [d \in Datasets |-> NoTree]
    /\ store_lock = Unlocked
    /\ pc = [t \in Threads |-> "idle"]
    /\ arg = [t \in Threads |-> NoDataset]
    /\ tx = NoTx
    /\ qtx = [t \in Threads |-> NoQuery]
    /\ last = NoLast
    /\ track = FALSE
    /\ committed = NoIds
    /\ ever = NoIds
    /\ poisoned = FALSE
    /\ foreign = {}
    /\ iter = [t \in Threads |-> NoIter]
    /\ queue = <<>>

\* The registry and the trees as they are.
Store == [registry |-> registry, trees |-> trees]

\* ------------------------------------------------------------ lifecycle
\* create_dataset with the counters initialized outside the test.
create_dataset_Reinit(reg, trs, d) ==
    LET opened == open_tree(trs, d)
        t1 == insert_counter(opened[d], "entity")
        t2 == insert_counter(t1, "attribute")
        t3 == insert_counter(t2, "string")
    IN [registry |-> reg \cup {d}, trees |-> [opened EXCEPT ![d] = t3]]

\* create_dataset testing for the tree, which it then finds uninitialized,
\* and resetting the entity counter of a registered dataset.
create_dataset_ResetsEntity(reg, trs, d) ==
    LET opened == open_tree(trs, d)
        t1 == insert_counter(opened[d], "entity")
        t2 == IF internal_dataset_exists(reg, d) THEN t1
              ELSE insert_counter(insert_counter(t1, "attribute"), "string")
    IN [registry |-> reg \cup {d}, trees |-> [opened EXCEPT ![d] = t2]]

\* create_dataset without its last counter.
create_dataset_SkipsCounter(reg, trs, d) ==
    IF ~internal_dataset_exists(reg, d)
    THEN LET opened == open_tree(trs, d)
             t1 == insert_counter(opened[d], "entity")
             t2 == insert_counter(t1, "attribute")
         IN [registry |-> reg \cup {d}, trees |-> [opened EXCEPT ![d] = t2]]
    ELSE [registry |-> reg, trees |-> trs]

\* The body of create_dataset under the write lock: the registry key, the
\* tree, and the three counters when the dataset is not registered.
create_dataset(reg, trs, d) ==
    IF ~internal_dataset_exists(reg, d)
    THEN LET opened == open_tree(trs, d)
             t1 == insert_counter(opened[d], "entity")
             t2 == insert_counter(t1, "attribute")
             t3 == insert_counter(t2, "string")
         IN [registry |-> reg \cup {d}, trees |-> [opened EXCEPT ![d] = t3]]
    ELSE [registry |-> reg, trees |-> trs]

\* delete_dataset without drop_tree.
delete_dataset_KeepsTree(reg, trs, d) ==
    IF internal_dataset_exists(reg, d)
    THEN [registry |-> reg \ {d}, trees |-> trs]
    ELSE [registry |-> reg, trees |-> trs]

\* The body of delete_dataset under the write lock.
delete_dataset(reg, trs, d) ==
    IF internal_dataset_exists(reg, d)
    THEN [registry |-> reg \ {d}, trees |-> drop_tree(trs, d)]
    ELSE [registry |-> reg, trees |-> trs]

\* A thread outside every operation calls one: the lock it asks for is
\* granted and the thread is inside the operation's locked section.
Acquire(t, d, op, l) ==
    /\ pc[t] = "idle"
    /\ store_lock' = l
    /\ pc' = [pc EXCEPT ![t] = op]
    /\ arg' = [arg EXCEPT ![t] = d]
    /\ last' = NoLast
    /\ UNCHANGED <<registry, trees, tx, qtx, track, ext, committed, ever>>

\* The operation returns: its guard is dropped.
Return(t, l) ==
    /\ store_lock' = l
    /\ pc' = [pc EXCEPT ![t] = "idle"]
    /\ arg' = [arg EXCEPT ![t] = NoDataset]

\* store_lock.write() of create_dataset.
create_dataset_acquire(t, d) ==
    /\ CanWrite(store_lock)
    /\ Acquire(t, d, "create", WriteLock(store_lock, t))

create_dataset_body(t) ==
    /\ pc[t] = "create"
    /\ LET d == arg[t]
           r == create_dataset(registry, trees, d)
       IN /\ registry' = r.registry
          /\ trees' = r.trees
          /\ last' = Returned("create", d, "ok", d \in registry, Store)
    /\ Return(t, WriteUnlock(store_lock, t))
    /\ UNCHANGED <<tx, qtx, track, ext, committed, ever>>

\* store_lock.write() of delete_dataset.
delete_dataset_acquire(t, d) ==
    /\ CanWrite(store_lock)
    /\ Acquire(t, d, "delete", WriteLock(store_lock, t))

\* The dataset's lifetime ends when its registry key is removed: the
\* identifiers of that lifetime are forgotten.
delete_dataset_body(t) ==
    /\ pc[t] = "delete"
    /\ LET d == arg[t]
           r == delete_dataset(registry, trees, d)
       IN /\ registry' = r.registry
          /\ trees' = r.trees
          /\ last' = Returned("delete", d, "ok", d \in registry, Store)
          /\ committed' = IF d \in registry THEN [committed EXCEPT ![d] = NoIds[d]]
                          ELSE committed
    /\ Return(t, WriteUnlock(store_lock, t))
    /\ UNCHANGED <<tx, qtx, track, ext, ever>>

\* store_lock.read() of dataset_exists.
dataset_exists_acquire(t, d) ==
    /\ CanRead(store_lock)
    /\ Acquire(t, d, "exists", ReadLock(store_lock, t))

dataset_exists_body(t) ==
    /\ pc[t] = "exists"
    /\ LET found == internal_dataset_exists(registry, arg[t])
       IN last' = Returned("exists", arg[t], IF found THEN "true" ELSE "false", found, Store)
    /\ Return(t, ReadUnlock(store_lock, t))
    /\ UNCHANGED <<registry, trees, tx, qtx, track, ext, committed, ever>>

\* ------------------------------------------------------------- write
Max(a, b) == IF a >= b THEN a ELSE b

\* The identifier allocator: the current value is returned, current + 1 is
\* written, inside the transaction.
allocate_next(view, k) == [view EXCEPT !.counters[k] = @ + 1]

\* add(): a context is allocated and every index entry of the statement is
\* written.  The context is an identifier of the entity counter.
tx_add_view(view, s) ==
    LET ps == <<s[1], s[2], s[3], view.counters["entity"]>>
        v == allocate_next(view, "entity")
    IN [v EXCEPT !.entries = @ \cup IndexEntries(ps)]

\* remove(): every index entry of that exact persisted statement is removed;
\* nothing happens when it is absent.
tx_remove_view(view, ps) == [view EXCEPT !.entries = @ \ IndexEntries(ps)]

\* A closure that returns Ok whatever the logic returned.
TxOutcome_IgnoresError(active, res) == IF active THEN "commit" ELSE "abort"

\* A closure that does not look at the active flag.
TxOutcome_IgnoresCancel(active, res) == IF res = "ok" THEN "commit" ELSE "abort"

\* What the transaction closure of write makes of the logic's result and the
\* transaction's active flag: Ok(value) commits, abort(...) aborts.
TxOutcome(active, res) ==
    IF active
    THEN (IF res = "ok" THEN "commit" ELSE "abort")
    ELSE "abort"

\* A commit that applies the counter writes and loses the index entries.
Commit_CountersOnly(tree, view) == [tree EXCEPT !.counters = view.counters]

\* A commit that applies the index entries and loses the counter writes.
Commit_EntriesOnly(tree, view) == [tree EXCEPT !.entries = view.entries]

\* sled's Tree::transaction on Ok: every buffered write of the transaction is
\* applied to the tree.
Commit(tree, view) == view

\* store_lock.write() of write.
write_acquire(t, d) ==
    /\ CanWrite(store_lock)
    /\ Acquire(t, d, "write_locked", WriteLock(store_lock, t))

\* The dataset is registered: its tree is opened, the transaction starts and
\* the logic is called with the write transaction.
write_begin(t) ==
    /\ pc[t] = "write_locked"
    /\ internal_dataset_exists(registry, arg[t])
    /\ trees' = open_tree(trees, arg[t])
    /\ tx' = [NoTx EXCEPT !.owner = t, !.dataset = arg[t], !.view = trees'[arg[t]],
                          !.before = Store,
                          !.floor = [committed |-> committed[arg[t]],
                                     ever |-> ever[arg[t]]]]
    /\ pc' = [pc EXCEPT ![t] = "write"]
    /\ UNCHANGED <<registry, store_lock, arg, qtx, last, track, ext, committed, ever>>

\* The dataset is not registered: an error, and the logic is never called.
write_missing(t) ==
    /\ pc[t] = "write_locked"
    /\ ~internal_dataset_exists(registry, arg[t])
    /\ last' = Returned("write", arg[t], "err", FALSE, Store)
    /\ Return(t, WriteUnlock(store_lock, t))
    /\ UNCHANGED <<registry, trees, tx, qtx, track, ext, committed, ever>>

\* The logic of thread t is running.
InLogic(t) == pc[t] = "write" /\ tx.owner = t

tx_add(t, s) ==
    /\ InLogic(t)
    /\ tx.view.counters["entity"] \in 0..(MaxId - 1)
    /\ tx' = [tx EXCEPT !.view = tx_add_view(@, s)]
    /\ UNCHANGED <<registry, trees, store_lock, pc, arg, qtx, last, track, ext, committed, ever>>

tx_remove(t, ps) ==
    /\ InLogic(t)
    /\ tx' = [tx EXCEPT !.view = tx_remove_view(@, ps)]
    /\ UNCHANGED <<registry, trees, store_lock, pc, arg, qtx, last, track, ext, committed, ever>>

\* new_entity() and new_attribute(): the allocator's current value is handed
\* to the logic.
tx_new_id(t, k) ==
    /\ InLogic(t)
    /\ tx.view.counters[k] \in 0..(MaxId - 1)
    /\ tx' = [tx EXCEPT !.view = allocate_next(@, k),
                        !.issued[k] = IF track THEN Append(@, tx.view.counters[k]) ELSE @]
    /\ UNCHANGED <<registry, trees, store_lock, pc, arg, qtx, last, track, ext, committed, ever>>

\* cancel(): the transaction is marked inactive.
tx_cancel(t) ==
    /\ InLogic(t)
    /\ tx.active
    /\ tx' = [tx EXCEPT !.active = FALSE]
    /\ UNCHANGED <<registry, trees, store_lock, pc, arg, qtx, last, track, ext, committed, ever>>

\* The largest identifier of a sequence of issued identifiers, at least floor.
SeqMax(q, floor) == IF q = <<>> THEN floor ELSE Max(floor, q[Len(q)])

\* The logic returns res, Ok(value) or Err(error): the rest of the transaction
\* closure, the transaction's end, and the return of write with the guard
\* dropped.
write_finish(t, res) ==
    /\ InLogic(t)
    /\ LET d == tx.dataset
           outcome == TxOutcome(tx.active, res)
           r == IF outcome = "commit" THEN "ok" ELSE "err"
       IN /\ trees' = IF outcome = "commit"
                      THEN [trees EXCEPT ![d] = Commit(@, tx.view)]
                      ELSE trees
          /\ committed' = IF track /\ r = "ok"
                          THEN [committed EXCEPT ![d] =
                                  [k \in IdKinds |-> SeqMax(tx.issued[k], committed[d][k])]]
                          ELSE committed
          /\ ever' = IF track /\ r = "ok"
                     THEN [ever EXCEPT ![d] =
                             [k \in IdKinds |-> SeqMax(tx.issued[k], ever[d][k])]]
                     ELSE ever
          /\ last' = [op |-> "write", dataset |-> d, ret |-> r, res |-> res,
                      cancelled |-> ~tx.active, hit |-> TRUE, issued |-> tx.issued,
                      before |-> tx.before, view |-> tx.view, floor |-> tx.floor]
    /\ tx' = NoTx
    /\ Return(t, WriteUnlock(store_lock, t))
    /\ UNCHANGED <<registry, qtx, track, ext>>

\* ------------------------------------------------------------- query
\* find() with every field a wildcard: the persisted statements of the tree.
Find(tree) == Statements(tree)

\* store_lock.read() of query.
query_acquire(t, d) ==
    /\ CanRead(store_lock)
    /\ Acquire(t, d, "query_locked", ReadLock(store_lock, t))

\* The dataset is registered: its tree is opened and the logic is called with
\* the query transaction.  snapshot records what was committed at that time.
query_begin(t) ==
    /\ pc[t] = "query_locked"
    /\ internal_dataset_exists(registry, arg[t])
    /\ trees' = open_tree(trees, arg[t])
    /\ qtx' = [qtx EXCEPT ![t] = [NoQuery EXCEPT !.dataset = arg[t],
                                                 !.snapshot = Statements(trees[arg[t]])]]
    /\ pc' = [pc EXCEPT ![t] = "query"]
    /\ UNCHANGED <<registry, store_lock, arg, tx, last, track, ext, committed, ever>>

\* The dataset is not registered: an error, and the logic is never called.
query_missing(t) ==
    /\ pc[t] = "query_locked"
    /\ ~internal_dataset_exists(registry, arg[t])
    /\ last' = Returned("query", arg[t], "err", FALSE, Store)
    /\ Return(t, ReadUnlock(store_lock, t))
    /\ UNCHANGED <<registry, trees, tx, qtx, track, ext, committed, ever>>

\* The logic looks at the dataset.
query_find(t) ==
    /\ pc[t] = "query"
    /\ qtx' = [qtx EXCEPT ![t].found = Find(trees[qtx[t].dataset])]
    /\ UNCHANGED <<registry, trees, store_lock, pc, arg, tx, last, track, ext, committed, ever>>

\* The logic returns and query returns its result with the guard dropped.
query_return(t) ==
    /\ pc[t] = "query"
    /\ last' = Returned("query", arg[t], "ok", TRUE, Store)
    /\ qtx' = [qtx EXCEPT ![t] = NoQuery]
    /\ Return(t, ReadUnlock(store_lock, t))
    /\ UNCHANGED <<registry, trees, tx, track, ext, committed, ever>>

\* ------------------------------------------------------------- system
\* Every operation on every dataset, by every thread; the logic allocates
\* entity identifiers.
Next ==
    \/ \E t \in Threads, d \in TwoDatasets : create_dataset_acquire(t, d)
    \/ \E t \in Threads : create_dataset_body(t)
    \/ \E t \in Threads, d \in TwoDatasets : delete_dataset_acquire(t, d)
    \/ \E t \in Threads : delete_dataset_body(t)
    \/ \E t \in Threads, d \in TwoDatasets : dataset_exists_acquire(t, d)
    \/ \E t \in Threads : dataset_exists_body(t)
    \/ \E t \in Threads, d \in TwoDatasets : write_acquire(t, d)
    \/ \E t \in Threads : write_begin(t)
    \/ \E t \in Threads : write_missing(t)
    \/ \E t \in Threads, s \in StmtInputs : tx_add(t, s)
    \/ \E t \in Threads, ps \in PersistedStatements : tx_remove(t, ps)
    \/ \E t \in Threads : tx_new_id(t, "entity")
    \/ \E t \in Threads : tx_cancel(t)
    \/ \E t \in Threads, res \in {"ok", "err"} : write_finish(t, res)
    \/ \E t \in Threads, d \in TwoDatasets : query_acquire(t, d)
    \/ \E t \in Threads : query_begin(t)
    \/ \E t \in Threads : query_missing(t)
    \/ \E t \in Threads : query_find(t)
    \/ \E t \in Threads : query_return(t)

Spec == Init /\ [][Next]_vars

\* One dataset in full: every operation on it by two threads, the logic
\* allocates entity and attribute identifiers, and the identifiers handed out
\* and committed are recorded.
InitDataset ==
    /\ registry = {}
    /\ trees = [d \in Datasets |-> NoTree]
    /\ store_lock = Unlocked
    /\ pc = [t \in Threads |-> "idle"]
    /\ arg = [t \in Threads |-> NoDataset]
    /\ tx = NoTx
    /\ qtx = [t \in Threads |-> NoQuery]
    /\ last = NoLast
    /\ track = TRUE
    /\ committed = NoIds
    /\ ever = NoIds
    /\ poisoned = FALSE
    /\ foreign = {}
    /\ iter = [t \in Threads |-> NoIter]
    /\ queue = <<>>

TheDataset == {"a/x"}
TheThreads == {"t1", "t2"}

NextDataset ==
    \/ \E t \in TheThreads, d \in TheDataset : create_dataset_acquire(t, d)
    \/ \E t \in TheThreads : create_dataset_body(t)
    \/ \E t \in TheThreads, d \in TheDataset : delete_dataset_acquire(t, d)
    \/ \E t \in TheThreads : delete_dataset_body(t)
    \/ \E t \in TheThreads, d \in TheDataset : dataset_exists_acquire(t, d)
    \/ \E t \in TheThreads : dataset_exists_body(t)
    \/ \E t \in TheThreads, d \in TheDataset : write_acquire(t, d)
    \/ \E t \in TheThreads : write_begin(t)
    \/ \E t \in TheThreads : write_missing(t)
    \/ \E t \in TheThreads, s \in StmtInputs : tx_add(t, s)
    \/ \E t \in TheThreads, ps \in PersistedStatements : tx_remove(t, ps)
    \/ \E t \in TheThreads, k \in IdKinds : tx_new_id(t, k)
    \/ \E t \in TheThreads : tx_cancel(t)
    \/ \E t \in TheThreads, res \in {"ok", "err"} : write_finish(t, res)
    \/ \E t \in TheThreads, d \in TheDataset : query_acquire(t, d)
    \/ \E t \in TheThreads : query_begin(t)
    \/ \E t \in TheThreads : query_missing(t)
    \/ \E t \in TheThreads : query_find(t)
    \/ \E t \in TheThreads : query_return(t)

SpecDataset == InitDataset /\ [][NextDataset]_vars

\* ------------------------------------------------------------- key codec
\* The tag byte of every registry key.
DATASET_PREFIX == 0

\* The strings that name datasets or are given to the matching operations.
Strings == {"", "a", "a/", "a/x", "a/y", "b", "b/", "b/z", "c"}

\* str::as_bytes: the UTF-8 bytes of a string.
as_bytes(s) ==
    CASE s = "" -> <<>>
      [] s = "a" -> <<97>>
      [] s = "a/" -> <<97, 47>>
      [] s = "a/x" -> <<97, 47, 120>>
      [] s = "a/y" -> <<97, 47, 121>>
      [] s = "b" -> <<98>>
      [] s = "b/" -> <<98, 47>>
      [] s = "b/z" -> <<98, 47, 122>>
      [] s = "c" -> <<99>>

\* encode_dataset and encode_dataset_match: the bytes of the name, so that
\* the order of the keys is the order of the names.
encode_dataset(d) == as_bytes(d)
encode_dataset_match(p) == as_bytes(p)

\* prepend(tag, bytes)
prepend(tag, bytes) == <<tag>> \o bytes

\* chomp_assert(tag, key): the key without its tag, an error when the key
\* does not start with the tag.
chomp_assert(tag, key) ==
    IF key # <<>> /\ key[1] = tag
    THEN [ok |-> TRUE, bytes |-> Tail(key)]
    ELSE [ok |-> FALSE, bytes |-> <<>>]

\* What an enumeration yields for a key it cannot decode.
ErrorItem == [ok |-> FALSE, name |-> ""]

\* decode_dataset(chomp_assert(..)?): the dataset the bytes encode; an error
\* when chomp_assert failed or the bytes are no dataset name.
decode_dataset(chomped) ==
    IF chomped.ok /\ \E d \in Datasets : encode_dataset(d) = chomped.bytes
    THEN [ok |-> TRUE, name |-> CHOOSE d \in Datasets : encode_dataset(d) = chomped.bytes]
    ELSE ErrorItem

\* The keys of the default tree: one per registered dataset, and the keys
\* that were in the database when it was opened.
DefaultTree(reg, frn) == {prepend(DATASET_PREFIX, encode_dataset(d)) : d \in reg} \cup frn

\* Keys no create_dataset writes: one with the registry tag whose bytes are
\* not UTF-8, one with another tag.
ForeignKeys == {<<0, 97, 255>>, <<9, 97>>}

\* ------------------------------------------------------------- scans
\* Byte sequences in lexicographic order.
RECURSIVE LexLess(_, _)
LexLess(x, y) ==
    IF y = <<>> THEN FALSE
    ELSE IF x = <<>> THEN TRUE
    ELSE IF x[1] # y[1] THEN x[1] < y[1]
    ELSE LexLess(Tail(x), Tail(y))

LexLeq(x, y) == x = y \/ LexLess(x, y)

IsPrefix(p, k) == Len(p) <= Len(k) /\ SubSeq(k, 1, Len(p)) = p

\* sled's Tree::scan_prefix: the keys that start with p.
scan_prefix(keys, p) == {k \in keys : IsPrefix(p, k)}

\* A range that includes its upper bound.
range_Inclusive(keys, lo, hi) == {k \in keys : LexLeq(lo, k) /\ LexLeq(k, hi)}

\* sled's Tree::range(lo..hi): the keys from lo up to hi, hi excluded.
range(keys, lo, hi) == {k \in keys : LexLeq(lo, k) /\ LexLess(k, hi)}

\* The keys an iterator is bounded to, among keys.
InBounds(it, keys) ==
    IF it.scan = "prefix" THEN scan_prefix(keys, it.lo) ELSE range(keys, it.lo, it.hi)

\* sled's iterators are lazy: next() looks the tree up, as it is then, for
\* the first key within the bounds after the key it yielded last.
Remaining(it, keys) ==
    {k \in InBounds(it, keys) : it.cursor = NoKey \/ LexLess(it.cursor, k)}

First(S) == CHOOSE k \in S : \A j \in S : LexLeq(k, j)

\* The closure the enumerations map over the scan: one item for the key.
Item(k) == decode_dataset(chomp_assert(DATASET_PREFIX, k))

\* A sequence that ends at the first key it cannot decode.
Exhausted_AtError(it, rem) ==
    rem = {} \/ (it.items # <<>> /\ ~it.items[Len(it.items)].ok)

\* Iterator::map ends when the scan has no key left.
Exhausted(it, rem) == rem = {}

\* ------------------------------------------------------------- enumeration
\* The sled iterator all_datasets, match_datasets_prefix and
\* match_datasets_range build from their arguments.
Scan(op, a, b) ==
    CASE op = "all" -> [scan |-> "prefix", lo |-> <<DATASET_PREFIX>>, hi |-> NoKey]
      [] op = "prefix" -> [scan |-> "prefix",
                           lo |-> prepend(DATASET_PREFIX, encode_dataset_match(a)),
                           hi |-> NoKey]
      [] op = "range" -> [scan |-> "range",
                          lo |-> prepend(DATASET_PREFIX, encode_dataset_match(a)),
                          hi |-> prepend(DATASET_PREFIX, encode_dataset_match(b))]

\* store_lock.read() of an enumeration, the lock being sound.
enumerate_acquire(t, op, a, b) ==
    /\ pc[t] = "idle"
    /\ CanRead(store_lock)
    /\ ~poisoned
    /\ store_lock' = ReadLock(store_lock, t)
    /\ pc' = [pc EXCEPT ![t] = "enumerate"]
    /\ iter' = [iter EXCEPT ![t] = [NoIter EXCEPT !.op = op, !.a = a, !.b = b]]
    /\ last' = NoLast
    /\ UNCHANGED <<registry, trees, arg, tx, qtx, track, committed, ever,
                   poisoned, foreign, queue>>

all_datasets_acquire(t) == enumerate_acquire(t, "all", "", "")
match_datasets_prefix_acquire(t, p) == enumerate_acquire(t, "prefix", p, "")
match_datasets_range_acquire(t, from, to) == enumerate_acquire(t, "range", from, to)

\* The enumeration builds the iterator, boxes it and returns it: the guard is
\* dropped, the caller holds the sequence, and nothing was read yet.
enumerate_return(t) ==
    /\ pc[t] = "enumerate"
    /\ LET it == iter[t]
           sc == Scan(it.op, it.a, it.b)
       IN iter' = [iter EXCEPT ![t] = [it EXCEPT !.scan = sc.scan, !.lo = sc.lo, !.hi = sc.hi,
                                                 !.atcall = DefaultTree(registry, foreign)]]
    /\ Return(t, ReadUnlock(store_lock, t))
    /\ UNCHANGED <<registry, trees, tx, qtx, last, track, committed, ever,
                   poisoned, foreign, queue>>

\* The caller takes the next item of its sequence; it holds no lock.
iter_next(t) ==
    /\ pc[t] = "idle"
    /\ iter[t].scan # "none"
    /\ ~iter[t].done
    /\ LET it == iter[t]
           rem == Remaining(it, DefaultTree(registry, foreign))
       IN iter' = [iter EXCEPT ![t] =
                     IF Exhausted(it, rem)
                     THEN [it EXCEPT !.done = TRUE]
                     ELSE [it EXCEPT !.cursor = First(rem),
                                     !.items = Append(@, Item(First(rem)))]]
    /\ UNCHANGED <<registry, trees, store_lock, pc, arg, tx, qtx, last, track, committed, ever,
                   poisoned, foreign, queue>>

\* The caller drops the sequence it has consumed.
iter_drop(t) ==
    /\ pc[t] = "idle"
    /\ iter[t].done
    /\ iter' = [iter EXCEPT ![t] = NoIter]
    /\ UNCHANGED <<registry, trees, store_lock, pc, arg, tx, qtx, last, track, committed, ever,
                   poisoned, foreign, queue>>

\* The registry of a database in which the datasets of reg were created.
Created(reg) ==
    [d \in Datasets |-> IF d \in reg THEN create_dataset({}, [e \in Datasets |-> NoTree], d).trees[d]
                        ELSE NoTree]

\* The matching operations as functions of the default tree: any registered
\* datasets, any foreign keys, one caller, any arguments.
InitMatch ==
    /\ registry \in SUBSET Datasets
    /\ trees = Created(registry)
    /\ store_lock = Unlocked
    /\ pc = [t \in Threads |-> "idle"]
    /\ arg = [t \in Threads |-> NoDataset]
    /\ tx = NoTx
    /\ qtx = [t \in Threads |-> NoQuery]
    /\ last = NoLast
    /\ track = FALSE
    /\ committed = NoIds
    /\ ever = NoIds
    /\ poisoned = FALSE
    /\ foreign \in SUBSET ForeignKeys
    /\ iter = [t \in Threads |-> NoIter]
    /\ queue = <<>>

NextMatch ==
    \/ all_datasets_acquire("t1")
    \/ \E p \in Strings : match_datasets_prefix_acquire("t1", p)
    \/ \E from \in Strings, to \in Strings : match_datasets_range_acquire("t1", from, to)
    \/ enumerate_return("t1")
    \/ iter_next("t1")
    \/ iter_drop("t1")

SpecMatch == InitMatch /\ [][NextMatch]_vars

\* Enumerations by one thread while another creates and deletes datasets.
MatchDatasets == {"a/x", "a/y"}

NextRegistry ==
    \/ all_datasets_acquire("t1")
    \/ match_datasets_prefix_acquire("t1", "a/")
    \/ match_datasets_range_acquire("t1", "a/", "b/")
    \/ enumerate_return("t1")
    \/ iter_next("t1")
    \/ iter_drop("t1")
    \/ \E d \in MatchDatasets : create_dataset_acquire("t2", d)
    \/ create_dataset_body("t2")
    \/ \E d \in MatchDatasets : delete_dataset_acquire("t2", d)
    \/ delete_dataset_body("t2")

SpecRegistry == Init /\ [][NextRegistry]_vars

\* ------------------------------------------------------------- poisoning
\* The logic of a write panics: the transaction is dropped with nothing
\* applied, the write guard is dropped by the unwinding and marks the lock
\* poisoned, and the thread is gone.
write_panic(t) ==
    /\ InLogic(t)
    /\ tx' = NoTx
    /\ poisoned' = TRUE
    /\ store_lock' = WriteUnlock(store_lock, t)
    /\ pc' = [pc EXCEPT ![t] = "panicked"]
    /\ arg' = [arg EXCEPT ![t] = NoDataset]
    /\ UNCHANGED <<registry, trees, qtx, last, track, committed, ever, foreign, iter, queue>>

\* What an operation makes of the error of store_lock.read() or
\* store_lock.write(): all_datasets and dataset_exists unwrap it, the others
\* map it to a LigatureError.
OnPoison(op) == IF op \in {"all", "exists"} THEN "panic" ELSE "err"

\* The sequence match_datasets_prefix and match_datasets_range return when
\* the lock is poisoned: std::iter::once(Err(e)).
OnceError(op) ==
    [NoIter EXCEPT !.op = op, !.scan = "once", !.items = <<ErrorItem>>, !.done = TRUE]

\* An operation is called while the lock is poisoned: the lock is taken as
\* soon as it is free, the guard comes inside an error and is dropped.
poisoned_call(t, op, d) ==
    /\ pc[t] = "idle"
    /\ poisoned
    /\ IF op \in {"create", "delete", "write"} THEN CanWrite(store_lock) ELSE CanRead(store_lock)
    /\ last' = Returned(op, d, OnPoison(op), FALSE, Store)
    /\ pc' = [pc EXCEPT ![t] = IF OnPoison(op) = "panic" THEN "panicked" ELSE "idle"]
    /\ iter' = IF op \in {"prefix", "range"} THEN [iter EXCEPT ![t] = OnceError(op)] ELSE iter
    /\ UNCHANGED <<registry, trees, store_lock, arg, tx, qtx, track, committed, ever,
                   poisoned, foreign, queue>>

\* The eight public operations.
Operations == {"all", "exists", "prefix", "range", "create", "delete", "query", "write"}

\* Every operation on one dataset by two threads, with logic that may panic.
NextPoison ==
    \/ \E t \in TheThreads, d \in TheDataset : ~poisoned /\ create_dataset_acquire(t, d)
    \/ \E t \in TheThreads : create_dataset_body(t)
    \/ \E t \in TheThreads, d \in TheDataset : ~poisoned /\ delete_dataset_acquire(t, d)
    \/ \E t \in TheThreads : delete_dataset_body(t)
    \/ \E t \in TheThreads, d \in TheDataset : ~poisoned /\ dataset_exists_acquire(t, d)
    \/ \E t \in TheThreads : dataset_exists_body(t)
    \/ \E t \in TheThreads, d \in TheDataset : ~poisoned /\ write_acquire(t, d)
    \/ \E t \in TheThreads : write_begin(t)
    \/ \E t \in TheThreads : write_missing(t)
    \/ \E t \in TheThreads, res \in {"ok", "err"} : write_finish(t, res)
    \/ \E t \in TheThreads : write_panic(t)
    \/ \E t \in TheThreads, d \in TheDataset : ~poisoned /\ query_acquire(t, d)
    \/ \E t \in TheThreads : query_begin(t)
    \/ \E t \in TheThreads : query_missing(t)
    \/ \E t \in TheThreads : query_return(t)
    \/ \E t \in TheThreads : all_datasets_acquire(t)
    \/ \E t \in TheThreads : match_datasets_prefix_acquire(t, "a/")
    \/ \E t \in TheThreads : match_datasets_range_acquire(t, "a/", "b/")
    \/ \E t \in TheThreads : enumerate_return(t)
    \/ \E t \in TheThreads : iter_next(t)
    \/ \E t \in TheThreads : iter_drop(t)
    \/ \E t \in TheThreads, op \in Operations, d \in TheDataset : poisoned_call(t, op, d)

SpecPoison == Init /\ [][NextPoison]_vars

\* ------------------------------------------------------------- find
\* Contexts of the statements a dataset holds when its patterns are resolved.
MaxContext == 3

\* A wildcard field of a pattern: NoValue for an identifier, Wild for a value.
Wild == "*"
NoPattern == [e |-> NoValue, a |-> NoValue, v |-> ""]
Patterns == [e : {NoValue, 1, 2}, a : {NoValue, 1, 2}, v : {Wild, "a", "b"}]

\* The tag that tells the keys of one ordering from those of another.
IndexTag(ix) == CASE ix = "EAVC" -> 1 [] ix = "AVEC" -> 2 [] ix = "VEAC" -> 3

\* A literal as the bytes of its content; the literals here have one byte.
EncodeValue(v) == as_bytes(v)[1]
DecodeValue(b) == CHOOSE v \in {"a", "b"} : EncodeValue(v) = b

\* The key of an index entry: the tag of the ordering and the fields of the
\* persisted statement in that order, the context last.
IndexKey(x) ==
    LET ps == x[2] IN
    CASE x[1] = "EAVC" -> <<IndexTag("EAVC"), ps[1], ps[2], EncodeValue(ps[3]), ps[4]>>
      [] x[1] = "AVEC" -> <<IndexTag("AVEC"), ps[2], EncodeValue(ps[3]), ps[1], ps[4]>>
      [] x[1] = "VEAC" -> <<IndexTag("VEAC"), EncodeValue(ps[3]), ps[1], ps[2], ps[4]>>

\* The persisted statement a key encodes.
DecodeKey(k) ==
    CASE k[1] = IndexTag("EAVC") -> <<k[2], k[3], DecodeValue(k[4]), k[5]>>
      [] k[1] = IndexTag("AVEC") -> <<k[4], k[2], DecodeValue(k[3]), k[5]>>
      [] k[1] = IndexTag("VEAC") -> <<k[3], k[4], DecodeValue(k[2]), k[5]>>

\* The ordering find scans: entity-first when the entity is fixed, else
\* attribute-first when the attribute is fixed, else value-first when the
\* value is fixed, else any one ordering.
ChooseIndex(pat) ==
    IF pat.e # NoValue THEN "EAVC"
    ELSE IF pat.a # NoValue THEN "AVEC"
    ELSE IF pat.v # Wild THEN "VEAC"
    ELSE "EAVC"

\* The fields of the pattern in the order of the ordering, NoValue for a
\* wildcard.
PatternFields(ix, pat) ==
    LET pv == IF pat.v = Wild THEN NoValue ELSE EncodeValue(pat.v) IN
    CASE ix = "EAVC" -> <<pat.e, pat.a, pv>>
      [] ix = "AVEC" -> <<pat.a, pv, pat.e>>
      [] ix = "VEAC" -> <<pv, pat.e, pat.a>>

\* The longest run of fixed fields from the left.
RECURSIVE TakeFixed(_)
TakeFixed(fs) ==
    IF fs = <<>> \/ Head(fs) = NoValue THEN <<>> ELSE <<Head(fs)>> \o TakeFixed(Tail(fs))

\* The keys of a scan in key order.
RECURSIVE Sorted(_)
Sorted(S) == IF S = {} THEN <<>> ELSE <<First(S)>> \o Sorted(S \ {First(S)})

\* find(pattern): the ordered scan of the chosen ordering under the prefix of
\* the fixed run, each key decoded, and the fixed fields the prefix does not
\* cover tested in memory.
find(tree, pat) ==
    LET ix == ChooseIndex(pat)
        fs == PatternFields(ix, pat)
        run == TakeFixed(fs)
        keys == scan_prefix({IndexKey(x) : x \in tree.entries}, <<IndexTag(ix)>> \o run)
        Keep(k) == \A i \in (Len(run) + 1)..3 : fs[i] = NoValue \/ k[i + 1] = fs[i]
        kept == SelectSeq(Sorted(keys), Keep)
    IN [i \in 1..Len(kept) |-> DecodeKey(kept[i])]

\* The logic of a query resolves a pattern.
query_find_pattern(t, pat) ==
    /\ pc[t] = "query"
    /\ qtx' = [qtx EXCEPT ![t].pattern = pat,
                          ![t].results = find(trees[qtx[t].dataset], pat)]
    /\ UNCHANGED <<registry, trees, store_lock, pc, arg, tx, last, track, committed, ever, ext>>

\* The statements committed to a dataset.
FindStatements == {<<1, 1, "a">>, <<1, 2, "b">>, <<2, 1, "a">>}
NoStatement == <<0, 0, "">>

\* The tree of a dataset in which statement f[c] was committed with context
\* c, for every context c that has one.
TreeOf(f) ==
    [open |-> TRUE,
     counters |-> [k \in Kinds |-> IF k = "string" THEN 0 ELSE MaxContext],
     entries |-> UNION {IndexEntries(<<f[c][1], f[c][2], f[c][3], c>>) :
                           c \in {x \in DOMAIN f : f[x] # NoStatement}}]

\* find as a function of the dataset: any statements committed to "a/x", any
\* pattern.
InitFind ==
    /\ registry = {"a/x"}
    /\ \E f \in [0..(MaxContext - 1) -> FindStatements \cup {NoStatement}] :
          trees = [d \in Datasets |-> IF d = "a/x" THEN TreeOf(f) ELSE NoTree]
    /\ store_lock = Unlocked
    /\ pc = [t \in Threads |-> "idle"]
    /\ arg = [t \in Threads |-> NoDataset]
    /\ tx = NoTx
    /\ qtx = [t \in Threads |-> NoQuery]
    /\ last = NoLast
    /\ track = FALSE
    /\ committed = NoIds
    /\ ever = NoIds
    /\ poisoned = FALSE
    /\ foreign = {}
    /\ iter = [t \in Threads |-> NoIter]
    /\ queue = <<>>

NextFind ==
    \/ query_acquire("t1", "a/x")
    \/ query_begin("t1")
    \/ \E pat \in Patterns : query_find_pattern("t1", pat)
    \/ query_return("t1")

SpecFind == InitFind /\ [][NextFind]_vars

\* ------------------------------------------------------------- engine errors
\* The engine operations of create_dataset and of delete_dataset, any one of
\* which may return an error; "none" when all succeed.
CreateFaults == {"none", "contains_key", "insert", "open_tree", "entity", "attribute", "string"}
DeleteFaults == {"none", "contains_key", "remove", "drop_tree"}

\* What create_dataset returns and leaves behind.
Outcome(reg, trs, r) == [registry |-> reg, trees |-> trs, ret |-> r]

\* create_dataset when the engine operation fault fails: every `?` returns
\* the error at once, with what the operations before it have written.
create_dataset_faulty(reg, trs, d, fault) ==
    IF fault = "contains_key" THEN Outcome(reg, trs, "err")
    ELSE IF internal_dataset_exists(reg, d) THEN Outcome(reg, trs, "ok")
    ELSE IF fault = "insert" THEN Outcome(reg, trs, "err")
    ELSE IF fault = "open_tree" THEN Outcome(reg \cup {d}, trs, "err")
    ELSE LET opened == open_tree(trs, d)
             t1 == insert_counter(opened[d], "entity")
             t2 == insert_counter(t1, "attribute")
             t3 == insert_counter(t2, "string")
         IN IF fault = "entity" THEN Outcome(reg \cup {d}, opened, "err")
            ELSE IF fault = "attribute"
                 THEN Outcome(reg \cup {d}, [opened EXCEPT ![d] = t1], "err")
            ELSE IF fault = "string"
                 THEN Outcome(reg \cup {d}, [opened EXCEPT ![d] = t2], "err")
            ELSE Outcome(reg \cup {d}, [opened EXCEPT ![d] = t3], "ok")

\* delete_dataset when the engine operation fault fails.
delete_dataset_faulty(reg, trs, d, fault) ==
    IF fault = "contains_key" THEN Outcome(reg, trs, "err")
    ELSE IF ~internal_dataset_exists(reg, d) THEN Outcome(reg, trs, "ok")
    ELSE IF fault = "remove" THEN Outcome(reg, trs, "err")
    ELSE IF fault = "drop_tree" THEN Outcome(reg \ {d}, trs, "err")
    ELSE Outcome(reg \ {d}, drop_tree(trs, d), "ok")

create_dataset_faulty_body(t, fault) ==
    /\ pc[t] = "create"
    /\ LET d == arg[t]
           r == create_dataset_faulty(registry, trees, d, fault)
       IN /\ registry' = r.registry
          /\ trees' = r.trees
          /\ last' = Returned("create", d, r.ret, d \in registry, Store)
    /\ Return(t, WriteUnlock(store_lock, t))
    /\ UNCHANGED <<tx, qtx, track, committed, ever, ext>>

delete_dataset_faulty_body(t, fault) ==
    /\ pc[t] = "delete"
    /\ LET d == arg[t]
           r == delete_dataset_faulty(registry, trees, d, fault)
       IN /\ registry' = r.registry
          /\ trees' = r.trees
          /\ last' = Returned("delete", d, r.ret, d \in registry, Store)
    /\ Return(t, WriteUnlock(store_lock, t))
    /\ UNCHANGED <<tx, qtx, track, committed, ever, ext>>

\* The lifecycle of two datasets, by two threads, on an engine whose
\* operations may fail.
NextFaults ==
    \/ \E t \in TheThreads, d \in TwoDatasets : create_dataset_acquire(t, d)
    \/ \E t \in TheThreads, fault \in CreateFaults : create_dataset_faulty_body(t, fault)
    \/ \E t \in TheThreads, d \in TwoDatasets : delete_dataset_acquire(t, d)
    \/ \E t \in TheThreads, fault \in DeleteFaults : delete_dataset_faulty_body(t, fault)
    \/ \E t \in TheThreads, d \in TwoDatasets : dataset_exists_acquire(t, d)
    \/ \E t \in TheThreads : dataset_exists_body(t)

SpecFaults == Init /\ [][NextFaults]_vars

\* ------------------------------------------------------------- progress
\* The operations whose callers may block, and where a thread is once its
\* lock is granted.
Blocking == {"create", "delete", "exists", "write", "query"}
LockedAt(op) ==
    CASE op = "create" -> "create"
      [] op = "delete" -> "delete"
      [] op = "exists" -> "exists"
      [] op = "write" -> "write_locked"
      [] op = "query" -> "query_locked"

\* A thread calls an operation and blocks in store_lock.read() or
\* store_lock.write().
call(t, op, d) ==
    /\ pc[t] = "idle"
    /\ pc' = [pc EXCEPT ![t] = "blocked"]
    /\ arg' = [arg EXCEPT ![t] = d]
    /\ queue' = Append(queue, [thread |-> t, op |-> op])
    /\ last' = NoLast
    /\ UNCHANGED <<registry, trees, store_lock, tx, qtx, track, committed, ever,
                   poisoned, foreign, iter>>

\* A fair lock serves the blocked threads in the order in which they came:
\* the first of them gets the lock once the lock allows it.
grant(t) ==
    /\ queue # <<>>
    /\ Head(queue).thread = t
    /\ LET op == Head(queue).op IN
       /\ IF op \in {"create", "delete", "write"}
          THEN CanWrite(store_lock) /\ store_lock' = WriteLock(store_lock, t)
          ELSE CanRead(store_lock) /\ store_lock' = ReadLock(store_lock, t)
       /\ pc' = [pc EXCEPT ![t] = LockedAt(op)]
    /\ queue' = Tail(queue)
    /\ UNCHANGED <<registry, trees, arg, tx, qtx, last, track, committed, ever,
                   poisoned, foreign, iter>>

\* What a thread inside an operation does next; the logic of a write or a
\* query returns.
Proceed(t) ==
    \/ create_dataset_body(t)
    \/ delete_dataset_body(t)
    \/ dataset_exists_body(t)
    \/ write_begin(t)
    \/ write_missing(t)
    \/ \E res \in {"ok", "err"} : write_finish(t, res)
    \/ query_begin(t)
    \/ query_missing(t)
    \/ query_return(t)

NextLive ==
    \/ \E t \in Threads, op \in Blocking, d \in TheDataset : call(t, op, d)
    \/ \E t \in Threads : grant(t)
    \/ \E t \in Threads : create_dataset_body(t)
    \/ \E t \in Threads : delete_dataset_body(t)
    \/ \E t \in Threads : dataset_exists_body(t)
    \/ \E t \in Threads : write_begin(t)
    \/ \E t \in Threads : write_missing(t)
    \/ \E t \in Threads : tx_cancel(t)
    \/ \E t \in Threads, res \in {"ok", "err"} : write_finish(t, res)
    \/ \E t \in Threads : query_begin(t)
    \/ \E t \in Threads : query_missing(t)
    \/ \E t \in Threads : query_find(t)
    \/ \E t \in Threads : query_return(t)

\* Three threads on one dataset under a fair lock; every operation runs to
\* completion on its thread and every logic returns.
SpecLive ==
    /\ Init
    /\ [][NextLive]_vars
    /\ \A t \in Threads : WF_vars(grant(t)) /\ WF_vars(Proceed(t))

\* ------------------------------------------------------------- claims
\* The write that returned last called its logic.
LastWrite == last.op = "write" /\ last.hit

\* The tree of the dataset of the last operation, before it and now.
LastTreeBefore == last.before.trees[last.dataset]
LastTree == trees[last.dataset]

\* C1: a write whose logic returned an error returns an error, and the store
\* (the registry, and every tree with its statements and its three counters)
\* is what it was before the call, whatever the logic had added, removed or
\* allocated.
C1_ErrorAborts ==
    (LastWrite /\ last.res = "err") => (last.ret = "err" /\ Store = last.before)

\* A write returned an error after its logic added two statements, allocated
\* an attribute and returned an error.
C1_Witness ==
    /\ LastWrite
    /\ last.res = "err"
    /\ ~last.cancelled
    /\ last.ret = "err"
    /\ Cardinality(Statements(last.view) \ Statements(LastTreeBefore)) >= 2
    /\ last.view.counters["attribute"] > LastTreeBefore.counters["attribute"]
    /\ Statements(LastTree) = Statements(LastTreeBefore)

\* C2: a write whose logic called cancel() returns an error and leaves the
\* store as it was before the call, whether the logic returned success or an
\* error.
C2_CancelAborts ==
    (LastWrite /\ last.cancelled) => (last.ret = "err" /\ Store = last.before)

\* A write returned an error after its logic added a statement, cancelled and
\* returned success.
C2_Witness ==
    /\ LastWrite
    /\ last.cancelled
    /\ last.res = "ok"
    /\ last.ret = "err"
    /\ Statements(last.view) # Statements(LastTreeBefore)
    /\ LastTree = LastTreeBefore

\* C3: nothing of a running transaction is in the store; when write has
\* returned, the dataset's tree is either the tree before the call or the tree
\* with every mutation of the transaction (index entries and counters), and it
\* is the latter when the logic returned success without cancelling.
C3_AllOrNothing ==
    /\ \A t \in Threads : InLogic(t) => Store = tx.before
    /\ LastWrite =>
         /\ registry = last.before.registry
         /\ LastTree \in {LastTreeBefore, last.view}
         /\ (last.res = "ok" /\ ~last.cancelled) => (last.ret = "ok" /\ LastTree = last.view)

\* A write committed index entries and increments of both counters.
C3_Witness ==
    /\ LastWrite
    /\ last.ret = "ok"
    /\ LastTree.entries # LastTreeBefore.entries
    /\ LastTree.counters["entity"] > LastTreeBefore.counters["entity"]
    /\ LastTree.counters["attribute"] > LastTreeBefore.counters["attribute"]

\* The threads inside the locked section of a write-path operation, and of a
\* read-path operation.
WritePath == {t \in Threads : pc[t] \in {"create", "delete", "write_locked", "write"}}
ReadPath == {t \in Threads : pc[t] \in {"exists", "query_locked", "query"}}

\* C4: at most one thread is inside create_dataset, delete_dataset or write
\* (its logic included), and while one is, no thread is inside any other
\* operation's locked section, whatever the datasets; threads are inside
\* read-path operations together only when no write-path operation is running.
C4_LockExclusion ==
    /\ Cardinality(WritePath) <= 1
    /\ WritePath # {} => ReadPath = {}

\* Two threads are inside read-path operations on different datasets at once:
\* one in the logic of a query, one in dataset_exists.
C4_Witness ==
    \E t1, t2 \in Threads :
        /\ pc[t1] = "query"
        /\ pc[t2] = "exists"
        /\ arg[t1] # arg[t2]

\* C5: as long as the logic of a query runs, the statements of its dataset
\* are those committed when the query took its read lock, and whatever the
\* logic has found is among them.
C5_SnapshotIsolation ==
    \A t \in Threads :
        pc[t] = "query" =>
            /\ qtx[t].found \subseteq qtx[t].snapshot
            /\ Find(trees[qtx[t].dataset]) = qtx[t].snapshot

\* The logic of a query has found a committed statement while another thread
\* was inside a read-path operation too.
C5_Witness ==
    \E t1, t2 \in Threads :
        /\ t1 # t2
        /\ pc[t1] = "query"
        /\ qtx[t1].found # {}
        /\ pc[t2] \in {"query", "query_locked"}

\* C6: create_dataset of a registered dataset returns success and leaves the
\* store as it was: the registry, the dataset's statements and its three
\* counters.
C6_CreateIdempotent ==
    (last.op = "create" /\ last.hit) => (last.ret = "ok" /\ Store = last.before)

\* create_dataset returned for a dataset that holds a statement and whose
\* entity and attribute counters are above zero.
C6_Witness ==
    /\ last.op = "create"
    /\ last.hit
    /\ Statements(LastTree) # {}
    /\ LastTree.counters["entity"] > 0
    /\ LastTree.counters["attribute"] > 0

\* C7: when delete_dataset has returned, it returned success, the dataset has
\* no registry key (dataset_exists answers false) and no tree, every other
\* dataset's registry key and tree are what they were, and the whole store is
\* what it was when the dataset was not registered.
C7_DeleteIdempotent ==
    /\ last.op = "delete" =>
         /\ last.ret = "ok"
         /\ ~internal_dataset_exists(registry, last.dataset)
         /\ ~LastTree.open
         /\ \A e \in Datasets \ {last.dataset} :
                /\ (e \in registry) = (e \in last.before.registry)
                /\ trees[e] = last.before.trees[e]
         /\ ~last.hit => Store = last.before
    /\ last.op = "exists" =>
         (last.ret = "true") = internal_dataset_exists(registry, last.dataset)

\* delete_dataset returned for a dataset that was not registered while another
\* dataset holds a statement.
C7_Witness ==
    /\ last.op = "delete"
    /\ ~last.hit
    /\ \E e \in registry : Statements(trees[e]) # {}

\* Every identifier of q is above floor and above the identifiers before it.
StrictlyAbove(q, floor) ==
    \A i \in 1..Len(q) : q[i] > floor /\ (i > 1 => q[i] > q[i - 1])

\* C8 as stated: the identifiers new_entity() and new_attribute() returned in
\* a committed transaction increase strictly and are above every identifier
\* that a committed transaction on a dataset of that name ever returned.
C8_Original ==
    (LastWrite /\ last.ret = "ok") =>
        \A k \in IdKinds : StrictlyAbove(last.issued[k], last.floor.ever[k])

\* C8 amended: the identifiers new_entity() and new_attribute() returned in a
\* committed transaction increase strictly and are above every identifier
\* that a committed transaction returned since the dataset was created.
C8_WithinLifetime ==
    (LastWrite /\ last.ret = "ok") =>
        \A k \in IdKinds : StrictlyAbove(last.issued[k], last.floor.committed[k])

\* A committed transaction returned an entity and an attribute identifier
\* after earlier committed transactions had returned one of each.
C8_Witness ==
    /\ LastWrite
    /\ last.ret = "ok"
    /\ \A k \in IdKinds : last.floor.committed[k] >= 0 /\ last.issued[k] # <<>>

\* C9 as stated: after a write (committed, errored or cancelled) no counter is
\* below what it was, and every identifier handed to the logic is below the
\* counter.
C9_Original ==
    LastWrite =>
        \A k \in IdKinds :
            /\ LastTree.counters[k] >= LastTreeBefore.counters[k]
            /\ \A i \in 1..Len(last.issued[k]) : last.issued[k][i] < LastTree.counters[k]

\* C9 amended: after a write no counter is below what it was; every
\* identifier handed out in a committed transaction is below the counter
\* afterwards, and no transaction is handed an identifier that a committed
\* transaction was handed since the dataset was created; the identifiers of
\* an errored or cancelled transaction are not below the counter afterwards.
C9_CommittedOnly ==
    /\ LastWrite =>
         \A k \in IdKinds :
             /\ LastTree.counters[k] >= LastTreeBefore.counters[k]
             /\ \A i \in 1..Len(last.issued[k]) :
                    (last.ret = "ok") = (last.issued[k][i] < LastTree.counters[k])
    /\ \A t \in Threads :
         InLogic(t) =>
             \A k \in IdKinds :
                 \A i \in 1..Len(tx.issued[k]) : tx.issued[k][i] > tx.floor.committed[k]
    /\ \A d \in registry : \A k \in IdKinds : committed[d][k] < trees[d].counters[k]

\* A transaction that was handed an entity identifier returned an error,
\* after a committed transaction had been handed one.
C9_Witness ==
    /\ LastWrite
    /\ last.ret = "err"
    /\ last.issued["entity"] # <<>>
    /\ last.floor.committed["entity"] >= 0

\* C10: while the lock is not held for writing, a dataset has a registry key
\* exactly when it has a tree, and the tree of a registered dataset holds all
\* three counters.
C10_RegistryKeyspace ==
    store_lock.writer = NoThread =>
        \A d \in Datasets :
            /\ (d \in registry) = trees[d].open
            /\ d \in registry => \A k \in Kinds : trees[d].counters[k] # NoValue

\* A dataset was created, written and deleted while another one is registered
\* and holds a statement.
C10_Witness ==
    /\ last.op = "delete"
    /\ last.hit
    /\ Statements(LastTreeBefore) # {}
    /\ \E e \in registry : Statements(trees[e]) # {}

\* C11: the logic of a query or a write runs only on a registered dataset;
\* a query or a write of a dataset that had no registry key when it was called
\* returns an error, has not called its logic, and leaves the store (the
\* registry and every tree) as it was: no key and no tree for the dataset.
C11_MissingDataset ==
    /\ \A t \in Threads : pc[t] \in {"write", "query"} => arg[t] \in registry
    /\ (last.op \in {"query", "write"} /\ last.dataset \notin last.before.registry) =>
         /\ last.ret = "err"
         /\ ~last.hit
         /\ Store = last.before
         /\ ~trees[last.dataset].open

\* A write of an unregistered dataset returned an error while another dataset
\* is registered and holds a statement.
C11_Witness ==
    /\ last.op = "write"
    /\ last.ret = "err"
    /\ ~last.hit
    /\ last.dataset \notin registry
    /\ \E e \in registry : Statements(trees[e]) # {}

\* Every dataset but d has the registry key and the tree it has in store b.
SameOthers(d, b) ==
    \A e \in Datasets \ {d} :
        /\ (e \in registry) = (e \in b.registry)
        /\ trees[e] = b.trees[e]

\* C16: a write that called its logic, committed or aborted, leaves the
\* registry and every other dataset's tree (statements and counters) as they
\* were; the logic in progress has changed none of them either; create_dataset
\* and delete_dataset leave every other dataset's registry key and tree as
\* they were.
C16_DatasetIsolation ==
    /\ \A t \in Threads :
          InLogic(t) => (registry = tx.before.registry /\ SameOthers(tx.dataset, tx.before))
    /\ LastWrite => (registry = last.before.registry /\ SameOthers(last.dataset, last.before))
    /\ last.op \in {"create", "delete"} => SameOthers(last.dataset, last.before)

\* A write committed a change to its dataset while another dataset is
\* registered and holds a statement.
C16_Witness ==
    /\ LastWrite
    /\ last.ret = "ok"
    /\ LastTree # LastTreeBefore
    /\ \E e \in registry \ {last.dataset} : Statements(trees[e]) # {}

\* The tree of a dataset that was just created.
FreshTree == [open |-> TRUE, counters |-> [k \in Kinds |-> 0], entries |-> {}]

\* C17: create_dataset of a dataset that is not registered (never created, or
\* deleted since) returns success and leaves it registered with all three
\* counters at zero and no statement for a wildcard find, whatever was
\* committed to a dataset of that name before.
C17_RecreateFresh ==
    (last.op = "create" /\ ~last.hit) =>
        /\ last.ret = "ok"
        /\ last.dataset \in registry
        /\ LastTree = FreshTree
        /\ Find(LastTree) = {}

\* create_dataset returned for an unregistered dataset to whose name entity
\* and attribute identifiers had been committed: it was deleted since.
C17_Witness ==
    /\ last.op = "create"
    /\ ~last.hit
    /\ \A k \in IdKinds : ever[last.dataset][k] >= 0

\* The datasets a sequence has yielded, and how many items were datasets and
\* how many were errors.
OkNames(items) == {items[i].name : i \in {j \in 1..Len(items) : items[j].ok}}
OkCount(items) == Cardinality({j \in 1..Len(items) : items[j].ok})
ErrorCount(items) == Cardinality({j \in 1..Len(items) : ~items[j].ok})

\* Names as strings: n begins with p; m is before n in lexicographic order.
Begins(n, p) == IsPrefix(as_bytes(p), as_bytes(n))
StrLess(m, n) == LexLess(as_bytes(m), as_bytes(n))
StrLeq(m, n) == m = n \/ StrLess(m, n)

\* C13: with the registered datasets unchanged, the consumed sequence of
\* match_datasets_prefix(p) holds exactly the registered datasets whose name
\* begins with p, and that of match_datasets_range(from, to) exactly those
\* with from <= name < to, each once; with "a/x", "a/y" and "b/z" registered,
\* prefix "a/" and range "a/".."b/" both give "a/x" and "a/y".
C13_MatchExact ==
    \A t \in Threads :
        LET it == iter[t] IN
        it.done =>
            /\ it.op = "prefix" => OkNames(it.items) = {d \in registry : Begins(d, it.a)}
            /\ it.op = "range" =>
                 OkNames(it.items) = {d \in registry : StrLeq(it.a, d) /\ StrLess(d, it.b)}
            /\ OkCount(it.items) = Cardinality(OkNames(it.items))
            /\ (registry = Datasets /\ ((it.op = "prefix" /\ it.a = "a/")
                                         \/ (it.op = "range" /\ it.a = "a/" /\ it.b = "b/"))) =>
                 OkNames(it.items) = {"a/x", "a/y"}

\* With all three datasets registered, the range from "a/x" to "b/z" was
\* consumed: it holds its lower bound and not its upper bound.
C13_Witness ==
    /\ registry = Datasets
    /\ iter["t1"].done
    /\ iter["t1"].op = "range"
    /\ iter["t1"].a = "a/x"
    /\ iter["t1"].b = "b/z"
    /\ OkNames(iter["t1"].items) = {"a/x", "a/y"}

\* The keys of the default tree an enumeration is bounded to, and those of
\* them that are no dataset.
Matching(it) == InBounds(it, DefaultTree(registry, foreign))
Undecodable(it) == {k \in Matching(it) : ~Item(k).ok}

\* C14: with the default tree unchanged, a consumed enumeration holds one item
\* per key within its bounds, in key order: one error item for every key that
\* cannot be decoded, and every registered dataset within the bounds, those
\* before and those after such a key.
C14_BestEffort ==
    \A t \in Threads :
        LET it == iter[t] IN
        it.done =>
            /\ Len(it.items) = Cardinality(Matching(it))
            /\ ErrorCount(it.items) = Cardinality(Undecodable(it))
            /\ OkNames(it.items) =
                 {d \in registry : prepend(DATASET_PREFIX, encode_dataset(d)) \in Matching(it)}
            /\ it.op = "all" => OkNames(it.items) = registry

\* all_datasets was consumed and yielded a dataset, an error item, and a
\* dataset after it.
C14_Witness ==
    /\ iter["t1"].done
    /\ iter["t1"].op = "all"
    /\ \E i, j, k \in 1..Len(iter["t1"].items) :
          /\ i < j
          /\ j < k
          /\ iter["t1"].items[i].ok
          /\ ~iter["t1"].items[j].ok
          /\ iter["t1"].items[k].ok

\* C18 as stated: a consumed enumeration holds exactly the datasets that were
\* registered, within its bounds, when the enumeration held the read lock.
C18_Original ==
    \A t \in Threads :
        LET it == iter[t] IN
        it.done =>
            OkNames(it.items) =
                {d \in Datasets : prepend(DATASET_PREFIX, encode_dataset(d))
                                      \in InBounds(it, it.atcall)}

\* A consumed enumeration holds a dataset that was created after the
\* enumeration had returned.
C18_Witness ==
    /\ iter["t1"].done
    /\ \E d \in OkNames(iter["t1"].items) :
          prepend(DATASET_PREFIX, encode_dataset(d)) \notin iter["t1"].atcall

\* C12 as stated: an operation that finds the lock poisoned returns the
\* error to its caller.
C12_Original == (poisoned /\ last.op # "none") => last.ret = "err"

\* dataset_exists was called with the lock poisoned.
C12_Witness ==
    /\ poisoned
    /\ last.op = "exists"
    /\ \E t \in Threads : pc[t] = "idle"

\* A persisted statement has the fixed fields of a pattern.
Matches(ps, pat) ==
    /\ pat.e = NoValue \/ ps[1] = pat.e
    /\ pat.a = NoValue \/ ps[2] = pat.a
    /\ pat.v = Wild \/ ps[3] = pat.v

\* C15: for every pattern (any of entity, attribute and value fixed, down to
\* the full wildcard) the sequence find returns inside a query holds exactly
\* the persisted statements committed to the dataset whose fixed fields
\* match, each once.
C15_PatternComplete ==
    \A t \in Threads :
        (pc[t] = "query" /\ qtx[t].pattern # NoPattern) =>
            LET res == qtx[t].results
                want == {ps \in qtx[t].snapshot : Matches(ps, qtx[t].pattern)}
            IN /\ {res[i] : i \in 1..Len(res)} = want
               /\ Len(res) = Cardinality(want)

\* With (1,1,"a"), (1,2,"b") and (2,1,"a") committed, the pattern that fixes
\* entity 1 and value "a" was resolved to one statement.
C15_Witness ==
    /\ pc["t1"] = "query"
    /\ {<<ps[1], ps[2], ps[3]>> : ps \in qtx["t1"].snapshot} = FindStatements
    /\ qtx["t1"].pattern = [e |-> 1, a |-> NoValue, v |-> "a"]
    /\ Len(qtx["t1"].results) = 1

\* C19 as stated: whenever create_dataset has returned success, on an engine
\* whose operations may fail, the dataset has its registry key and its tree
\* holds all three counters.
C19_Original ==
    (last.op = "create" /\ last.ret = "ok") =>
        /\ last.dataset \in registry
        /\ LastTree.open
        /\ \A k \in Kinds : LastTree.counters[k] # NoValue

\* create_dataset returned success for a dataset whose earlier creation
\* failed after the entity counter was written.
C19_Witness ==
    /\ last.op = "create"
    /\ last.ret = "ok"
    /\ last.hit
    /\ LastTree.counters["entity"] # NoValue
    /\ LastTree.counters["string"] = NoValue

\* C20: under a fair lock, with every logic returning, every thread that has
\* called an operation and is blocked on the lock gets the lock and returns
\* from the operation: no thread is blocked for ever, whoever holds the lock.
C20_Progress ==
    \A t \in Threads : (pc[t] = "blocked") ~> (pc[t] = "idle")

\* The logic of a write runs while a query and another write are blocked on
\* the lock.
C20_Witness ==
    /\ \E t \in Threads : pc[t] = "write"
    /\ Len(queue) = 2
    /\ {queue[1].op, queue[2].op} = {"query", "write"}

====
